---- MODULE Spec2Model ----
(***************************************************************************)
(* goober: video -> original subtitles -> translated subtitles.            *)
(*                                                                         *)
(* Spec     the pipelines src/tl_argos.py and src/tl_opus.py run by        *)
(*          concurrent processes that share the Argos package registry,    *)
(*          together with the cache cleanup script src/cleanup.py.         *)
(* SpecDoc  the subtitle documents handled by write_srt, translate_srt     *)
(*          and translate_srt_opus, on concrete segments and contents.     *)
(*                                                                         *)
(* Strings are sequences of one-character strings, so that split("-"),     *)
(* lower(), strip() and f"{a}-{b}" are computed and not assumed.           *)
(***************************************************************************)
EXTENDS Integers, Sequences, FiniteSets, TLC

VARIABLES
    registry,      \* Argos package directory: package -> absent | partial | installed
    catalog,       \* list returned by argos_pkg.get_available_packages()
    script,        \* per process: "argos" (tl_argos.py) or "opus" (tl_opus.py)
    pc,            \* per process: position in main()
    stage,         \* per process: pipeline stage reached
    workspace,     \* per process: tempfile.TemporaryDirectory: none | held | released
    args,          \* per process: parsed arguments (language, to)
    detected_lang, \* per process: info.language
    src_code,      \* per process: src_code of main()
    translator,    \* per process: translator returned to main()
    tr,            \* per process: tr of ensure_argos_pair (last load_translator result)
    pkg,           \* per process: pkg of ensure_argos_pair
    raised,        \* per process: exception raised by the failing call
    err,           \* per process: the exception leaving main(), <<message, cause>>
    exitCode,      \* per process: exit status
    queries,       \* per process: load_translator calls made
    netOps,        \* per process: catalog queries + downloads made
    installs,      \* per process: install_from_path calls started
    sawPartial,    \* per process: load_translator read a partly written package
    out_orig,      \* per process: <base>.orig.srt
    out_trans,     \* per process: <base>.<to>.srt
    backend,       \* document run: "argos" (translate_srt) or "opus" (translate_srt_opus)
    batch_size,    \* document run: args.batch_size
    segments,      \* document run: segments returned by transcribe_to_segments
    orig_file,     \* document run: text of <base>.orig.srt
    subs,          \* document run: subs of translate_srt / translate_srt_opus
    parsed,        \* document run: the document as parsed from the original file
    sentences,     \* document run: sentences of translate_srt_opus
    translated_sentences, \* document run: translated_sentences of translate_srt_opus
    mt,            \* document run: what the translation model returns for each content
    nxt,           \* document run: next entry of the translation loop
    trans_file,    \* document run: text of <base>.<to>.srt
    dpc,           \* document run: position
    lpc,           \* main.py: position
    video_path,    \* main.py: video_path
    src_language,  \* main.py: language
    translate_to,  \* main.py: translate_to
    min_silence_duration, \* main.py: min_silence_duration
    threshold,     \* main.py: threshold, in thousandths
    library,       \* main.py: library
    command,       \* main.py: command handed to subprocess.Popen
    launches,      \* main.py: subprocess.Popen calls made
    lexit          \* main.py: exit status of the launcher

pipeVars == <<registry, catalog, script, pc, stage, workspace, args, detected_lang,
              src_code, translator, tr, pkg, raised, err, exitCode, queries,
              netOps, installs, sawPartial, out_orig, out_trans>>

docVars == <<backend, batch_size, segments, orig_file, subs, parsed, sentences,
             translated_sentences, mt, nxt, trans_file, dpc>>


runVars == <<lpc, video_path, src_language, translate_to, min_silence_duration,
             threshold, library, command, launches, lexit>>


vars == <<pipeVars, docVars, runVars>>

\* Python None, of the same shape as the modelled strings and tuples
None == <<"None">>

(***************************************************************************)
(* Strings                                                                 *)
(***************************************************************************)
Hyphen == "-"

LowerChar(c) == IF c = "A" THEN "a" ELSE IF c = "U" THEN "u" ELSE c

\* str.lower()
Lower(s) == [i \in 1..Len(s) |-> LowerChar(s[i])]

\* s.split("-")[0]: everything before the first hyphen
SplitFirst(s) ==
    IF \E i \in 1..Len(s) : s[i] = Hyphen
    THEN LET first == CHOOSE i \in 1..Len(s) :
                          /\ s[i] = Hyphen
                          /\ \A j \in 1..(i-1) : s[j] # Hyphen
         IN  SubSeq(s, 1, first - 1)
    ELSE s

\* f"{a}-{b}"
Key(a, b) == a \o <<Hyphen>> \o b

Auto == <<"a", "u", "t", "o">>

(***************************************************************************)
(* Bounded inputs                                                          *)
(***************************************************************************)
Procs == {"p1", "p2"}

Package(f, t) == <<f, t>>
from_code(k) == k[1]
to_code(k) == k[2]

\* packages that exist in the world; (a, b-c) and (a-b, c) share the key a-b-c
Universe == { Package(<<"a">>, <<"b", "-", "c">>),
              Package(<<"a", "-", "b">>, <<"c">>) }

LanguageArgs == { Auto, <<"a", "-", "b">> }
ToArgs == { <<"b">>, <<"b", "-", "c">> }
DetectedLangs == { None, <<"a">> }

\* lists of distinct packages the remote index can return
RECURSIVE ListsOver(_)
ListsOver(S) ==
    {<<>>} \cup UNION { { <<x>> \o l : l \in ListsOver(S \ {x}) } : x \in S }

Catalogs == ListsOver(Universe)

ArgsSet == [language : LanguageArgs, to : ToArgs]

(***************************************************************************)
(* The Argos registry as load_translator reads it                          *)
(***************************************************************************)
Partial(reg) == {k \in Universe : reg[k] = "partial"}
Installed(reg) == {k \in Universe : reg[k] = "installed"}

\* what a reader of the package directory may find: every installed package,
\* and any of the packages install_from_path is still writing
Views(reg) == { Installed(reg) \cup S : S \in SUBSET Partial(reg) }

\* argos.get_installed_languages(), keyed by code
InstalledLanguages(view) == {from_code(k) : k \in view} \cup {to_code(k) : k \in view}

\* langs[src].get_translation(langs[tgt])
GetTranslation(view, src_lang, tgt_lang) ==
    IF Package(src_lang, tgt_lang) \in view THEN Package(src_lang, tgt_lang) ELSE None

load_translator(view, src_lang, tgt_lang) ==
    IF src_lang \in InstalledLanguages(view) /\ tgt_lang \in InstalledLanguages(view)
    THEN GetTranslation(view, src_lang, tgt_lang)
    ELSE None

\* the dict comprehension of ensure_argos_pair followed by available.get(key):
\* a later package of the list replaces an earlier one with the same key
AvailableGet(list, key) ==
    LET hits == {i \in 1..Len(list) : Key(from_code(list[i]), to_code(list[i])) = key}
    IN  IF hits = {} THEN None
        ELSE list[CHOOSE i \in hits : \A j \in hits : j <= i]

(***************************************************************************)
(* Exceptions and the with block                                           *)
(***************************************************************************)
Set(f, p, v) == [f EXCEPT ![p] = v]

\* an exception e leaves main() uncaught: traceback, exit status 1
Uncaught(p, message, e) ==
    /\ stage' = Set(stage, p, "Failed")
    /\ pc' = Set(pc, p, "exit")
    /\ raised' = Set(raised, p, e)
    /\ err' = Set(err, p, <<message, e>>)
    /\ exitCode' = Set(exitCode, p, 1)

\* mutant: the directory is made with mkdtemp() and never removed
WithExitLeak(p) == UNCHANGED workspace

\* leaving `with tempfile.TemporaryDirectory() as td`, normally or by exception
WithExit(p) == workspace' = Set(workspace, p, "released")

\* mutant: `except Exception: pass`, falling through to the re-query
EnsureExceptSwallow(p, e) ==
    /\ raised' = Set(raised, p, e)
    /\ pc' = Set(pc, p, "requery")
    /\ UNCHANGED <<stage, err, exitCode>>

\* except Exception as e: raise RuntimeError(f"Failed to auto-install ...: {e}")
EnsureExcept(p, e) == Uncaught(p, "Failed to auto-install", e)

(***************************************************************************)
(* main() of tl_argos.py and tl_opus.py                                    *)
(***************************************************************************)
\* mutant: video.exists() is tested inside the with block, after the directory
\* was made
StartInsideWith(p) ==
    /\ pc[p] = "start"
    /\ \/ /\ pc' = Set(pc, p, "ffmpeg")
          /\ workspace' = Set(workspace, p, "held")
          /\ UNCHANGED <<stage, raised, err, exitCode>>
       \/ /\ Uncaught(p, "Input not found", "SystemExit")
          /\ workspace' = Set(workspace, p, "released")
    /\ UNCHANGED <<registry, catalog, script, args, detected_lang,
                   src_code, translator, tr, pkg, queries, netOps, installs,
                   sawPartial, out_orig, out_trans>>
    /\ UNCHANGED docVars
    /\ UNCHANGED runVars

\* if not video.exists(): sys.exit(f"Input not found: {video}")
Start(p) ==
    /\ pc[p] = "start"
    /\ \/ /\ pc' = Set(pc, p, "with")
          /\ UNCHANGED <<stage, raised, err, exitCode>>
       \/ Uncaught(p, "Input not found", "SystemExit")
    /\ UNCHANGED <<registry, catalog, script, workspace, args, detected_lang,
                   src_code, translator, tr, pkg, queries, netOps, installs,
                   sawPartial, out_orig, out_trans>>
    /\ UNCHANGED docVars
    /\ UNCHANGED runVars

Acquire(p) ==
    /\ pc[p] = "with"
    /\ \/ /\ workspace' = Set(workspace, p, "held")
          /\ pc' = Set(pc, p, "ffmpeg")
          /\ UNCHANGED <<stage, raised, err, exitCode>>
       \/ /\ Uncaught(p, "OSError", "OSError")
          /\ UNCHANGED workspace
    /\ UNCHANGED <<registry, catalog, script, args, detected_lang,
                   src_code, translator, tr, pkg, queries, netOps, installs,
                   sawPartial, out_orig, out_trans>>
    /\ UNCHANGED docVars
    /\ UNCHANGED runVars

\* mutant: subprocess.run(cmd) without check=True, a failing ffmpeg goes unnoticed
ExtractAudioUnchecked(p) ==
    /\ pc[p] = "ffmpeg"
    /\ \/ UNCHANGED raised
       \/ raised' = Set(raised, p, "CalledProcessError")
    /\ stage' = Set(stage, p, "AudioExtracted")
    /\ pc' = Set(pc, p, "transcribe")
    /\ UNCHANGED <<registry, catalog, script, workspace, args, detected_lang,
                   src_code, translator, tr, pkg, err, exitCode, queries, netOps,
                   installs, sawPartial, out_orig, out_trans>>
    /\ UNCHANGED docVars
    /\ UNCHANGED runVars

ExtractAudio(p) ==
    /\ pc[p] = "ffmpeg"
    /\ \/ /\ stage' = Set(stage, p, "AudioExtracted")
          /\ pc' = Set(pc, p, "transcribe")
          /\ UNCHANGED <<workspace, raised, err, exitCode>>
       \/ /\ Uncaught(p, "CalledProcessError", "CalledProcessError")
          /\ WithExit(p)
    /\ UNCHANGED <<registry, catalog, script, args, detected_lang,
                   src_code, translator, tr, pkg, queries, netOps, installs,
                   sawPartial, out_orig, out_trans>>
    /\ UNCHANGED docVars
    /\ UNCHANGED runVars

Transcribe(p) ==
    /\ pc[p] = "transcribe"
    /\ \/ /\ \E d \in DetectedLangs : detected_lang' = Set(detected_lang, p, d)
          /\ stage' = Set(stage, p, "Transcribed")
          /\ pc' = Set(pc, p, "write_orig")
          /\ WithExit(p)
          /\ UNCHANGED <<raised, err, exitCode>>
       \/ /\ Uncaught(p, "TranscriptionError", "TranscriptionError")
          /\ WithExit(p)
          /\ UNCHANGED detected_lang
    /\ UNCHANGED <<registry, catalog, script, args,
                   src_code, translator, tr, pkg, queries, netOps, installs,
                   sawPartial, out_orig, out_trans>>
    /\ UNCHANGED docVars
    /\ UNCHANGED runVars

WriteOriginal(p) ==
    /\ pc[p] = "write_orig"
    /\ \/ /\ out_orig' = Set(out_orig, p, "written")
          /\ stage' = Set(stage, p, "OriginalWritten")
          /\ pc' = Set(pc, p, "resolve")
          /\ UNCHANGED <<raised, err, exitCode>>
       \/ /\ Uncaught(p, "OSError", "OSError")
          /\ UNCHANGED out_orig
    /\ UNCHANGED <<registry, catalog, script, workspace, args, detected_lang,
                   src_code, translator, tr, pkg, queries, netOps, installs,
                   sawPartial, out_trans>>
    /\ UNCHANGED docVars
    /\ UNCHANGED runVars

\* (detected_lang if args.language.lower() == "auto" else args.language)
EffectiveLanguage(language, detected) ==
    IF Lower(language) = Auto THEN detected ELSE language

ResolveSource(p) ==
    /\ pc[p] = "resolve"
    /\ LET lang == EffectiveLanguage(args[p].language, detected_lang[p])
       IN  IF lang = None
           THEN /\ Uncaught(p, "AttributeError", "AttributeError")
                /\ UNCHANGED src_code
           ELSE /\ src_code' = Set(src_code, p, SplitFirst(lang))
                /\ pc' = Set(pc, p, IF script[p] = "argos" THEN "ensure" ELSE "nltk")
                /\ UNCHANGED <<stage, raised, err, exitCode>>
    /\ UNCHANGED <<registry, catalog, script, workspace, args, detected_lang,
                   translator, tr, pkg, queries, netOps, installs,
                   sawPartial, out_orig, out_trans>>
    /\ UNCHANGED docVars
    /\ UNCHANGED runVars

(***************************************************************************)
(* ensure_argos_pair, called from main() of tl_argos.py                    *)
(***************************************************************************)
\* mutant: the early `return tr` is missing
EnsureLoadNoReturn(p) ==
    /\ pc[p] = "ensure"
    /\ \E view \in Views(registry) :
         /\ tr' = Set(tr, p, load_translator(view, src_code[p], args[p].to))
         /\ sawPartial' = Set(sawPartial, p, sawPartial[p] \/ view \cap Partial(registry) # {})
    /\ pc' = Set(pc, p, "catalog")
    /\ queries' = Set(queries, p, queries[p] + 1)
    /\ UNCHANGED <<registry, catalog, script, stage, workspace, args, detected_lang,
                   src_code, translator, pkg, raised, err, exitCode, netOps, installs,
                   out_orig, out_trans>>
    /\ UNCHANGED docVars
    /\ UNCHANGED runVars

\* tr = load_translator(src_lang, tgt_lang); if tr: return tr
EnsureLoad(p) ==
    /\ pc[p] = "ensure"
    /\ \E view \in Views(registry) :
         LET found == load_translator(view, src_code[p], args[p].to)
         IN  /\ tr' = Set(tr, p, found)
             /\ sawPartial' = Set(sawPartial, p, sawPartial[p] \/ view \cap Partial(registry) # {})
             /\ IF found # None
                THEN /\ translator' = Set(translator, p, found)
                     /\ stage' = Set(stage, p, "TranslatorReady")
                     /\ pc' = Set(pc, p, "translate")
                ELSE /\ pc' = Set(pc, p, "catalog")
                     /\ UNCHANGED <<translator, stage>>
    /\ queries' = Set(queries, p, queries[p] + 1)
    /\ UNCHANGED <<registry, catalog, script, workspace, args, detected_lang,
                   src_code, pkg, raised, err, exitCode, netOps, installs,
                   out_orig, out_trans>>
    /\ UNCHANGED docVars
    /\ UNCHANGED runVars

\* available = {...get_available_packages()}; pkg = available.get(key); if not pkg: raise
QueryCatalog(p) ==
    /\ pc[p] = "catalog"
    /\ netOps' = Set(netOps, p, netOps[p] + 1)
    /\ \/ /\ EnsureExcept(p, "index unavailable")
          /\ UNCHANGED pkg
       \/ LET found == AvailableGet(catalog, Key(src_code[p], args[p].to))
          IN  IF found = None
              THEN /\ EnsureExcept(p, "No Argos package found")
                   /\ UNCHANGED pkg
              ELSE /\ pkg' = Set(pkg, p, found)
                   /\ pc' = Set(pc, p, "download")
                   /\ UNCHANGED <<stage, raised, err, exitCode>>
    /\ UNCHANGED <<registry, catalog, script, workspace, args, detected_lang,
                   src_code, translator, tr, queries, installs,
                   sawPartial, out_orig, out_trans>>
    /\ UNCHANGED docVars
    /\ UNCHANGED runVars

\* model_path = pkg.download()
Download(p) ==
    /\ pc[p] = "download"
    /\ netOps' = Set(netOps, p, netOps[p] + 1)
    /\ \/ /\ pc' = Set(pc, p, "install")
          /\ UNCHANGED <<stage, raised, err, exitCode>>
       \/ EnsureExcept(p, "download failed")
    /\ UNCHANGED <<registry, catalog, script, workspace, args, detected_lang,
                   src_code, translator, tr, pkg, queries, installs,
                   sawPartial, out_orig, out_trans>>
    /\ UNCHANGED docVars
    /\ UNCHANGED runVars

\* argos_pkg.install_from_path(model_path) starts unpacking into the package
\* directory; ensure_argos_pair takes no lock and publishes by no rename
InstallBegin(p) ==
    /\ pc[p] = "install"
    /\ registry' = [registry EXCEPT ![pkg[p]] = "partial"]
    /\ installs' = Set(installs, p, installs[p] + 1)
    /\ pc' = Set(pc, p, "installing")
    /\ UNCHANGED <<catalog, script, stage, workspace, args, detected_lang,
                   src_code, translator, tr, pkg, raised, err, exitCode, queries,
                   netOps, sawPartial, out_orig, out_trans>>
    /\ UNCHANGED docVars
    /\ UNCHANGED runVars

\* install_from_path returns, or raises with the files written so far left behind
InstallEnd(p) ==
    /\ pc[p] = "installing"
    /\ \/ /\ registry' = [registry EXCEPT ![pkg[p]] = "installed"]
          /\ pc' = Set(pc, p, "requery")
          /\ UNCHANGED <<stage, raised, err, exitCode>>
       \/ /\ EnsureExcept(p, "install failed")
          /\ UNCHANGED registry
    /\ UNCHANGED <<catalog, script, workspace, args, detected_lang,
                   src_code, translator, tr, pkg, queries, netOps, installs,
                   sawPartial, out_orig, out_trans>>
    /\ UNCHANGED docVars
    /\ UNCHANGED runVars

\* mutant: `return load_translator(src_lang, tgt_lang)` without the check
RequeryNoCheck(p) ==
    /\ pc[p] = "requery"
    /\ \E view \in Views(registry) :
         LET found == load_translator(view, src_code[p], args[p].to)
         IN  /\ tr' = Set(tr, p, found)
             /\ translator' = Set(translator, p, found)
             /\ sawPartial' = Set(sawPartial, p, sawPartial[p] \/ view \cap Partial(registry) # {})
    /\ stage' = Set(stage, p, "TranslatorReady")
    /\ pc' = Set(pc, p, "translate")
    /\ queries' = Set(queries, p, queries[p] + 1)
    /\ UNCHANGED <<registry, catalog, script, workspace, args, detected_lang,
                   src_code, pkg, raised, err, exitCode, netOps, installs,
                   out_orig, out_trans>>
    /\ UNCHANGED docVars
    /\ UNCHANGED runVars

\* tr = load_translator(src_lang, tgt_lang); if not tr: raise; return tr
Requery(p) ==
    /\ pc[p] = "requery"
    /\ \E view \in Views(registry) :
         LET found == load_translator(view, src_code[p], args[p].to)
         IN  /\ tr' = Set(tr, p, found)
             /\ sawPartial' = Set(sawPartial, p, sawPartial[p] \/ view \cap Partial(registry) # {})
             /\ IF found # None
                THEN /\ translator' = Set(translator, p, found)
                     /\ stage' = Set(stage, p, "TranslatorReady")
                     /\ pc' = Set(pc, p, "translate")
                     /\ UNCHANGED <<raised, err, exitCode>>
                ELSE /\ Uncaught(p, "Argos translator still unavailable", "RuntimeError")
                     /\ UNCHANGED translator
    /\ queries' = Set(queries, p, queries[p] + 1)
    /\ UNCHANGED <<registry, catalog, script, workspace, args, detected_lang,
                   src_code, pkg, netOps, installs, out_orig, out_trans>>
    /\ UNCHANGED docVars
    /\ UNCHANGED runVars

(***************************************************************************)
(* translator construction in tl_opus.py                                   *)
(***************************************************************************)
\* nltk.data.find('tokenizers/punkt'), downloading it when missing
NltkPunkt(p) ==
    /\ pc[p] = "nltk"
    /\ \/ /\ pc' = Set(pc, p, "easynmt")
          /\ UNCHANGED <<stage, raised, err, exitCode>>
       \/ Uncaught(p, "LookupError", "LookupError")
    /\ UNCHANGED <<registry, catalog, script, workspace, args, detected_lang,
                   src_code, translator, tr, pkg, queries, netOps, installs,
                   sawPartial, out_orig, out_trans>>
    /\ UNCHANGED docVars
    /\ UNCHANGED runVars

\* translator = EasyNMT("Opus-MT", device=args.device)
ConstructEasyNMT(p) ==
    /\ pc[p] = "easynmt"
    /\ \/ /\ translator' = Set(translator, p, <<"EasyNMT">>)
          /\ stage' = Set(stage, p, "TranslatorReady")
          /\ pc' = Set(pc, p, "translate")
          /\ UNCHANGED <<raised, err, exitCode>>
       \/ /\ Uncaught(p, "OSError", "OSError")
          /\ UNCHANGED translator
    /\ UNCHANGED <<registry, catalog, script, workspace, args, detected_lang,
                   src_code, tr, pkg, queries, netOps, installs,
                   sawPartial, out_orig, out_trans>>
    /\ UNCHANGED docVars
    /\ UNCHANGED runVars

(***************************************************************************)
(* translate_srt / translate_srt_opus as main() sees them                  *)
(***************************************************************************)
\* read the original file and translate every entry
Translate(p) ==
    /\ pc[p] = "translate"
    /\ \/ /\ stage' = Set(stage, p, "Translated")
          /\ pc' = Set(pc, p, "write_trans")
          /\ UNCHANGED <<raised, err, exitCode>>
       \/ Uncaught(p, "TranslationError", "TranslationError")
    /\ UNCHANGED <<registry, catalog, script, workspace, args, detected_lang,
                   src_code, translator, tr, pkg, queries, netOps, installs,
                   sawPartial, out_orig, out_trans>>
    /\ UNCHANGED docVars
    /\ UNCHANGED runVars

\* write the translated file, print "Done." and return
WriteTranslated(p) ==
    /\ pc[p] = "write_trans"
    /\ \/ /\ out_trans' = Set(out_trans, p, "written")
          /\ stage' = Set(stage, p, "Done")
          /\ pc' = Set(pc, p, "exit")
          /\ exitCode' = Set(exitCode, p, 0)
          /\ UNCHANGED <<raised, err>>
       \/ /\ Uncaught(p, "OSError", "OSError")
          /\ UNCHANGED out_trans
    /\ UNCHANGED <<registry, catalog, script, workspace, args, detected_lang,
                   src_code, translator, tr, pkg, queries, netOps, installs,
                   sawPartial, out_orig>>
    /\ UNCHANGED docVars
    /\ UNCHANGED runVars

(***************************************************************************)
(* cleanup.py                                                              *)
(***************************************************************************)
CleanupChoices == {"1", "2", "3", "4"}

\* choices 2 and 3 remove the Argos directories
CleanupMain ==
    /\ \E choice \in CleanupChoices :
         registry' = IF choice \in {"2", "3"}
                     THEN [k \in Universe |-> "absent"]
                     ELSE registry
    /\ UNCHANGED <<catalog, script, pc, stage, workspace, args, detected_lang,
                   src_code, translator, tr, pkg, raised, err, exitCode, queries,
                   netOps, installs, sawPartial, out_orig, out_trans>>
    /\ UNCHANGED docVars
    /\ UNCHANGED runVars

(***************************************************************************)
(* Subtitle documents: srt.Subtitle, srt.compose, srt.parse                *)
(* Times are microseconds, as in datetime.timedelta.                       *)
(***************************************************************************)
Whitespace == {" ", "\n"}

\* str.strip()
RECURSIVE LStrip(_)
LStrip(s) == IF s # <<>> /\ Head(s) \in Whitespace THEN LStrip(Tail(s)) ELSE s

RECURSIVE RStrip(_)
RStrip(s) ==
    IF s # <<>> /\ s[Len(s)] \in Whitespace THEN RStrip(SubSeq(s, 1, Len(s) - 1)) ELSE s

Strip(s) == LStrip(RStrip(s))

Subtitle(i, st, en, c) == [index |-> i, start |-> st, end |-> en, content |-> c]

\* the loop of write_srt: enumerate(segments, start=1), content=seg[2].strip()
BuildSubs(segs) ==
    [i \in 1..Len(segs) |-> Subtitle(i, segs[i][1], segs[i][2], Strip(segs[i][3]))]

\* Subtitle.__lt__: (start, end, index) compared in this order
SubLess(a, b) ==
    \/ a.start < b.start
    \/ a.start = b.start /\ a.end < b.end
    \/ a.start = b.start /\ a.end = b.end /\ a.index < b.index

\* sorted(subtitles): stable
RECURSIVE Insert(_, _)
Insert(sorted, x) ==
    IF sorted = <<>> THEN <<x>>
    ELSE IF SubLess(x, Head(sorted)) THEN <<x>> \o sorted
    ELSE <<Head(sorted)>> \o Insert(Tail(sorted), x)

RECURSIVE Sorted(_)
Sorted(list) ==
    IF list = <<>> THEN <<>>
    ELSE Insert(Sorted(SubSeq(list, 1, Len(list) - 1)), list[Len(list)])

\* srt.SUBTITLE_SKIP_CONDITIONS: no content, negative start, start >= end
ShouldSkip(sub) ==
    \/ Strip(sub.content) = <<>>
    \/ sub.start < 0
    \/ sub.start >= sub.end

RECURSIVE Reindex(_, _)
Reindex(list, next_index) ==
    IF list = <<>> THEN <<>>
    ELSE IF ShouldSkip(Head(list)) THEN Reindex(Tail(list), next_index)
    ELSE <<[Head(list) EXCEPT !.index = next_index]>>
         \o Reindex(Tail(list), next_index + 1)

\* mutant: compose(subs, start_index=0)
SortAndReindexFromZero(list) == Reindex(Sorted(list), 0)

\* srt.sort_and_reindex(subtitles, start_index=1, skip=True)
SortAndReindex(list) == Reindex(Sorted(list), 1)

\* srt.timedelta_to_srt_timestamp: HH:MM:SS,mmm, microseconds cut to milliseconds
Timestamp(us) ==
    LET secs_total == us \div 1000000
    IN  << secs_total \div 3600,
           (secs_total % 3600) \div 60,
           secs_total % 60,
           (us % 1000000) \div 1000 >>

\* srt.srt_timestamp_to_timedelta
Timedelta(ts) == ((ts[1] * 3600 + ts[2] * 60 + ts[3]) * 1000 + ts[4]) * 1000

\* srt.make_legal_content: no leading or trailing newline, no blank line inside
RECURSIVE SqueezeNewlines(_)
SqueezeNewlines(c) ==
    IF Len(c) < 2 THEN c
    ELSE IF c[1] = "\n" /\ c[2] = "\n" THEN SqueezeNewlines(Tail(c))
    ELSE <<Head(c)>> \o SqueezeNewlines(Tail(c))

RECURSIVE StripNewlines(_)
StripNewlines(c) ==
    IF c # <<>> /\ Head(c) = "\n" THEN StripNewlines(Tail(c))
    ELSE IF c # <<>> /\ c[Len(c)] = "\n" THEN StripNewlines(SubSeq(c, 1, Len(c) - 1))
    ELSE c

HasBlankLine(c) == \E i \in 1..(Len(c) - 1) : c[i] = "\n" /\ c[i + 1] = "\n"

MakeLegalContent(c) ==
    IF c # <<>> /\ Head(c) # "\n" /\ ~HasBlankLine(c)
    THEN c
    ELSE SqueezeNewlines(StripNewlines(c))

\* Subtitle.to_srt(strict=True): one block of the file
ToSrt(sub) ==
    [index |-> sub.index, start |-> Timestamp(sub.start), end |-> Timestamp(sub.end),
     content |-> MakeLegalContent(sub.content)]

\* srt.compose(subs): reindex=True, start_index=1, strict=True
compose(list) ==
    LET kept == SortAndReindex(list) IN [i \in 1..Len(kept) |-> ToSrt(kept[i])]

\* list(srt.parse(text))
parse(blocks) ==
    [i \in 1..Len(blocks) |->
        Subtitle(blocks[i].index, Timedelta(blocks[i].start), Timedelta(blocks[i].end),
                 blocks[i].content)]

File(blocks) == [exists |-> TRUE, blocks |-> blocks]
NoFile == [exists |-> FALSE, blocks |-> <<>>]

(***************************************************************************)
(* The batch translator of tl_opus.py: translator.translate(sentences,     *)
(* batch_size=...) cuts the list into batches, translates each batch and   *)
(* returns the outputs in input order                                      *)
(***************************************************************************)
RECURSIVE TranslateBatches(_, _, _)
TranslateBatches(list, size, f) ==
    IF list = <<>> THEN <<>>
    ELSE LET n == IF Len(list) < size THEN Len(list) ELSE size
             batch == SubSeq(list, 1, n)
         IN  [i \in 1..n |-> f[batch[i]]]
             \o TranslateBatches(SubSeq(list, n + 1, Len(list)), size, f)

\* mutant: sub.content = translated_sentences[0]
AssignContentsFirst(list, outs) ==
    [i \in 1..Len(list) |-> [list[i] EXCEPT !.content = outs[1]]]

\* for i, sub in enumerate(subs): sub.content = translated_sentences[i]
AssignContents(list, outs) ==
    [i \in 1..Len(list) |-> [list[i] EXCEPT !.content = outs[i]]]

(***************************************************************************)
(* Documents through write_srt and translate_srt / translate_srt_opus      *)
(***************************************************************************)
MaxSegs == 3
MaxBatch == 2
DefaultBatchSize == 32

Times == {0, 1200500, 2000000}
Texts == { <<"h">>, <<" ", "y">>, <<" ">> }
SourceContents == { Strip(t) : t \in Texts } \ { <<>> }
TransOutputs == { <<"H">>, <<>> }
BatchSizes == (1..MaxBatch) \cup {DefaultBatchSize}

\* segments of the transcriber: start <= end, starts in non-decreasing order
Segments == { <<st, en, t>> : st \in Times, en \in Times, t \in Texts }
WellFormed(segs) ==
    /\ \A i \in 1..Len(segs) : segs[i][1] <= segs[i][2]
    /\ \A i \in 1..(Len(segs) - 1) : segs[i][1] <= segs[i + 1][1]
SegmentLists ==
    { segs \in UNION { [1..n -> Segments] : n \in 0..MaxSegs } : WellFormed(segs) }

\* write_srt(segments, out_orig)
DocWriteSrt ==
    /\ dpc = "write_srt"
    /\ orig_file' = File(compose(BuildSubs(segments)))
    /\ dpc' = "read"
    /\ UNCHANGED <<backend, batch_size, segments, subs, parsed, sentences,
                   translated_sentences, mt, nxt, trans_file>>
    /\ UNCHANGED pipeVars
    /\ UNCHANGED runVars

\* subs = list(srt.parse(f.read()))
DocParse ==
    /\ dpc = "read"
    /\ subs' = parse(orig_file.blocks)
    /\ parsed' = parse(orig_file.blocks)
    /\ nxt' = 1
    /\ dpc' = IF backend = "argos" THEN "loop" ELSE "batch"
    /\ UNCHANGED <<backend, batch_size, segments, orig_file, sentences,
                   translated_sentences, mt, trans_file>>
    /\ UNCHANGED pipeVars
    /\ UNCHANGED runVars

\* translate_srt: for sub in subs: sub.content = translator.translate(sub.content)
DocTranslateEntry ==
    /\ dpc = "loop"
    /\ IF nxt <= Len(subs)
       THEN \/ /\ subs' = [subs EXCEPT ![nxt].content = mt[subs[nxt].content]]
               /\ nxt' = nxt + 1
               /\ UNCHANGED dpc
            \/ /\ dpc' = "failed"
               /\ UNCHANGED <<subs, nxt>>
       ELSE /\ dpc' = "write"
            /\ UNCHANGED <<subs, nxt>>
    /\ UNCHANGED <<backend, batch_size, segments, orig_file, parsed, sentences,
                   translated_sentences, mt, trans_file>>
    /\ UNCHANGED pipeVars
    /\ UNCHANGED runVars

\* translate_srt_opus: sentences, translator.translate(...), the assignment loop
DocTranslateBatch ==
    /\ dpc = "batch"
    /\ \/ LET sents == [i \in 1..Len(subs) |-> subs[i].content]
             outs == TranslateBatches(sents, batch_size, mt)
         IN  /\ sentences' = sents
             /\ translated_sentences' = outs
             /\ subs' = AssignContents(subs, outs)
             /\ dpc' = "write"
       \/ /\ dpc' = "failed"
          /\ UNCHANGED <<sentences, translated_sentences, subs>>
    /\ UNCHANGED <<backend, batch_size, segments, orig_file, parsed, mt, nxt,
                   trans_file>>
    /\ UNCHANGED pipeVars
    /\ UNCHANGED runVars

\* with open(out_srt, "w") as f: f.write(srt.compose(subs))
DocWriteTranslated ==
    /\ dpc = "write"
    /\ trans_file' = File(compose(subs))
    /\ dpc' = "done"
    /\ UNCHANGED <<backend, batch_size, segments, orig_file, subs, parsed, sentences,
                   translated_sentences, mt, nxt>>
    /\ UNCHANGED pipeVars
    /\ UNCHANGED runVars

(***************************************************************************)
(* Specification                                                           *)
(***************************************************************************)
\* every process before its first statement
NotStarted ==
    /\ pc = [p \in Procs |-> "start"]
    /\ stage = [p \in Procs |-> "Init"]
    /\ workspace = [p \in Procs |-> "none"]
    /\ detected_lang = [p \in Procs |-> None]
    /\ src_code = [p \in Procs |-> None]
    /\ translator = [p \in Procs |-> None]
    /\ tr = [p \in Procs |-> None]
    /\ pkg = [p \in Procs |-> None]
    /\ raised = [p \in Procs |-> "none"]
    /\ err = [p \in Procs |-> None]
    /\ exitCode = [p \in Procs |-> -1]
    /\ queries = [p \in Procs |-> 0]
    /\ netOps = [p \in Procs |-> 0]
    /\ installs = [p \in Procs |-> 0]
    /\ sawPartial = [p \in Procs |-> FALSE]
    /\ out_orig = [p \in Procs |-> "absent"]
    /\ out_trans = [p \in Procs |-> "absent"]

\* no document run
DocIdle ==
    /\ backend = "argos"
    /\ batch_size = DefaultBatchSize
    /\ segments = <<>>
    /\ orig_file = NoFile
    /\ subs = <<>>
    /\ parsed = <<>>
    /\ sentences = <<>>
    /\ translated_sentences = <<>>
    /\ mt = [c \in SourceContents |-> <<>>]
    /\ nxt = 0
    /\ trans_file = NoFile
    /\ dpc = "idle"

\* no codec run

(***************************************************************************)
(* main.py, the interactive launcher.  Typed lines are sequences of        *)
(* characters; int(), float() and str() are computed on them.              *)
(***************************************************************************)
Child == "p1"

DigitChars == <<"0", "1", "2", "3", "4", "5", "6", "7", "8", "9">>
IsDigit(c) == \E i \in 1..Len(DigitChars) : DigitChars[i] = c
DigitValue(c) == (CHOOSE i \in 1..Len(DigitChars) : DigitChars[i] = c) - 1

RECURSIVE DigitsValue(_)
DigitsValue(ds) ==
    IF ds = <<>> THEN 0
    ELSE DigitsValue(SubSeq(ds, 1, Len(ds) - 1)) * 10 + DigitValue(ds[Len(ds)])

RECURSIVE Pow10(_)
Pow10(k) == IF k = 0 THEN 1 ELSE 10 * Pow10(k - 1)

Signed(s) == s # <<>> /\ Head(s) \in {"+", "-"}
Unsigned(s) == IF Signed(s) THEN Tail(s) ELSE s
SignOf(s) == IF s # <<>> /\ Head(s) = "-" THEN -1 ELSE 1

\* int(s) succeeds: an optional sign and one or more digits
IsInt(s) ==
    /\ Unsigned(s) # <<>>
    /\ \A i \in 1..Len(Unsigned(s)) : IsDigit(Unsigned(s)[i])

\* int(s)
Int_(s) == SignOf(s) * DigitsValue(Unsigned(s))

RECURSIVE IntDigits(_)
IntDigits(n) ==
    IF n < 10 THEN <<DigitChars[n + 1]>>
    ELSE IntDigits(n \div 10) \o <<DigitChars[(n % 10) + 1]>>

\* str(n) of an int
IntStr(n) == IF n < 0 THEN <<"-">> \o IntDigits(-n) ELSE IntDigits(n)

\* position of the decimal point of s, or 0
PointAt(s) == IF \E i \in 1..Len(s) : s[i] = "." THEN CHOOSE i \in 1..Len(s) : s[i] = "." ELSE 0

\* the digits of s without its decimal point
Mantissa(s) == SelectSeq(s, LAMBDA c : c # ".")

\* float(s) succeeds: an optional sign, digits with at most one decimal point
\* and at least one digit
IsFloat(s) ==
    LET u == Unsigned(s)
    IN  /\ Mantissa(u) # <<>>
        /\ Len(u) - Len(Mantissa(u)) <= 1
        /\ \A i \in 1..Len(Mantissa(u)) : IsDigit(Mantissa(u)[i])

\* float(s) as the exact decimal <<n, k>> = n / 10^k
Float(s) ==
    LET u == Unsigned(s)
    IN  << SignOf(s) * DigitsValue(Mantissa(u)),
           IF PointAt(u) = 0 THEN 0 ELSE Len(u) - PointAt(u) >>

\* 0.1 <= threshold <= 1.0
InRange(f) == 10 * f[1] >= Pow10(f[2]) /\ f[1] <= Pow10(f[2])

\* n / 10^k without the zeros at the end of its fraction, one digit kept
RECURSIVE Shorten(_)
Shorten(f) ==
    IF f[2] > 1 /\ f[1] % 10 = 0 THEN Shorten(<<f[1] \div 10, f[2] - 1>>)
    ELSE IF f[2] = 0 THEN <<f[1] * 10, 1>>
    ELSE f

RECURSIVE ZeroPad(_, _)
ZeroPad(ds, width) == IF Len(ds) >= width THEN ds ELSE ZeroPad(<<"0">> \o ds, width)

\* str(f) of a float that is not negative
FloatStr(f) ==
    LET g == Shorten(f)
    IN  IntDigits(g[1] \div Pow10(g[2])) \o <<".">>
            \o ZeroPad(IntDigits(g[1] % Pow10(g[2])), g[2])

DefaultMinSilence == 500
DefaultThreshold == <<5, 1>>

Argos == <<"a", "r", "g", "o", "s">>
Opus == <<"o", "p", "u", "s">>

\* os.path.join("src", f"tl_{library}.py")
ScriptPath(lib) == <<"s", "r", "c", "/", "t", "l", "_">> \o lib \o <<".", "p", "y">>

\* the script uv runs for a path
ScriptOf(path) == IF path = ScriptPath(Argos) THEN "argos" ELSE "opus"

\* command = ["uv", "run", script_path, video_path, "--language", language, ...]
Command(path, video, lang, to, ms, thr) ==
    << <<"u", "v">>, <<"r", "u", "n">>, path, video,
       <<"-", "-", "l", "a", "n", "g", "u", "a", "g", "e">>, lang,
       <<"-", "-", "t", "o">>, to,
       <<"-", "-", "v", "a", "d", "-", "m", "s">>, IntStr(ms),
       <<"-", "-", "v", "a", "d", "-", "t", "h", "r", "e", "s", "h", "o", "l", "d">>,
       FloatStr(thr) >>

\* lines the user may type at the prompts
VideoLines == { <<>>, <<" ">>, <<" ", "v">> }
LanguageLines == { <<>>, Auto \o <<" ">>, <<"a", "-", "b">> }
ToLines == { <<>>, <<"b">>, <<"b", "-", "c">> }
DurationLines == { <<>>, <<"7">>, <<"0">>, <<"-", "3">>, <<"x">> }
ThresholdLines == { <<>>, <<"1">>, <<"0", ".", "1", "0">>, <<"0", ".", "0", "9">>,
                    <<"1", ".", "5">>, <<"x">> }
LibraryLines == { <<>>, <<"A", "r", "g", "o", "s">>, <<"o", "p", "U", "s", " ">>, <<"x">> }

\* sys.exit(code) of the launcher
LauncherExit(code) ==
    /\ lpc' = "exit"
    /\ lexit' = code

\* video_path = input("Video path: ").strip()
AskVideoPath ==
    /\ lpc = "video"
    /\ \E line \in VideoLines :
         /\ video_path' = Strip(line)
         /\ IF Strip(line) = <<>>
            THEN LauncherExit(1)
            ELSE lpc' = "language" /\ UNCHANGED lexit
    /\ UNCHANGED <<src_language, translate_to, min_silence_duration, threshold,
                   library, command, launches>>
    /\ UNCHANGED pipeVars
    /\ UNCHANGED docVars

\* language = input("Language ...").strip()
AskLanguage ==
    /\ lpc = "language"
    /\ \E line \in LanguageLines :
         /\ src_language' = Strip(line)
         /\ IF Strip(line) = <<>>
            THEN LauncherExit(1)
            ELSE lpc' = "to" /\ UNCHANGED lexit
    /\ UNCHANGED <<video_path, translate_to, min_silence_duration, threshold,
                   library, command, launches>>
    /\ UNCHANGED pipeVars
    /\ UNCHANGED docVars

\* translate_to = input("Translate to ...").strip()
AskTranslateTo ==
    /\ lpc = "to"
    /\ \E line \in ToLines :
         /\ translate_to' = Strip(line)
         /\ IF Strip(line) = <<>>
            THEN LauncherExit(1)
            ELSE lpc' = "vad_ms" /\ UNCHANGED lexit
    /\ UNCHANGED <<video_path, src_language, min_silence_duration, threshold,
                   library, command, launches>>
    /\ UNCHANGED pipeVars
    /\ UNCHANGED docVars

\* one pass of the loop around input("Minimum silence duration ...")
AskMinSilence ==
    /\ lpc = "vad_ms"
    /\ \E line \in DurationLines :
         LET str == Strip(line)
         IN  IF str = <<>>
             THEN /\ min_silence_duration' = DefaultMinSilence
                  /\ lpc' = "threshold"
             ELSE IF IsInt(str)
             THEN /\ min_silence_duration' = Int_(str)
                  /\ lpc' = IF Int_(str) > 0 THEN "threshold" ELSE "vad_ms"
             ELSE UNCHANGED <<min_silence_duration, lpc>>
    /\ UNCHANGED <<video_path, src_language, translate_to, threshold, library,
                   command, launches, lexit>>
    /\ UNCHANGED pipeVars
    /\ UNCHANGED docVars

\* one pass of the loop around input("Threshold ...")
AskThreshold ==
    /\ lpc = "threshold"
    /\ \E line \in ThresholdLines :
         LET str == Strip(line)
         IN  IF str = <<>>
             THEN /\ threshold' = DefaultThreshold
                  /\ lpc' = "library"
             ELSE IF IsFloat(str)
             THEN /\ threshold' = Float(str)
                  /\ lpc' = IF InRange(Float(str)) THEN "library" ELSE "threshold"
             ELSE UNCHANGED <<threshold, lpc>>
    /\ UNCHANGED <<video_path, src_language, translate_to, min_silence_duration,
                   library, command, launches, lexit>>
    /\ UNCHANGED pipeVars
    /\ UNCHANGED docVars

\* mutant: the line typed is taken as the library without the membership test
AskLibraryUnvalidated ==
    /\ lpc = "library"
    /\ \E line \in LibraryLines :
         /\ library' = Strip(Lower(line))
         /\ lpc' = "popen"
    /\ UNCHANGED <<video_path, src_language, translate_to, min_silence_duration,
                   threshold, command, launches, lexit>>
    /\ UNCHANGED pipeVars
    /\ UNCHANGED docVars

\* one pass of `while library not in ["argos", "opus"]`
AskLibrary ==
    /\ lpc = "library"
    /\ \E line \in LibraryLines :
         /\ library' = Strip(Lower(line))
         /\ lpc' = IF Strip(Lower(line)) \in {Argos, Opus} THEN "popen" ELSE "library"
    /\ UNCHANGED <<video_path, src_language, translate_to, min_silence_duration,
                   threshold, command, launches, lexit>>
    /\ UNCHANGED pipeVars
    /\ UNCHANGED docVars

\* the command is built and handed to subprocess.Popen: the script starts, or
\* uv is not found (FileNotFoundError), or Popen fails otherwise (Exception)
Launch ==
    /\ lpc = "popen"
    /\ command' = Command(ScriptPath(library), video_path, src_language, translate_to,
                          min_silence_duration, threshold)
    /\ \/ /\ launches' = launches + 1
          /\ lpc' = "wait"
          /\ script' = Set(script, Child, ScriptOf(command'[3]))
          /\ args' = Set(args, Child, [language |-> command'[6], to |-> command'[8]])
          /\ pc' = Set(pc, Child, "start")
          /\ UNCHANGED lexit
       \/ /\ LauncherExit(1)
          /\ UNCHANGED <<launches, script, args, pc>>
    /\ UNCHANGED <<registry, catalog, stage, workspace, detected_lang, src_code,
                   translator, tr, pkg, raised, err, exitCode, queries, netOps,
                   installs, sawPartial, out_orig, out_trans>>
    /\ UNCHANGED <<video_path, src_language, translate_to, min_silence_duration,
                   threshold, library>>
    /\ UNCHANGED docVars

\* mutant: the return code is not looked at
AwaitChildIgnoreCode ==
    /\ lpc = "wait"
    /\ pc[Child] = "exit"
    /\ LauncherExit(0)
    /\ UNCHANGED <<video_path, src_language, translate_to, min_silence_duration,
                   threshold, library, command, launches>>
    /\ UNCHANGED pipeVars
    /\ UNCHANGED docVars

\* the output was streamed and process.wait() returned: return on code 0,
\* sys.exit(process.returncode) otherwise; an exception while streaming ends
\* in sys.exit(1) once the with block has waited for the script
AwaitChild ==
    /\ lpc = "wait"
    /\ pc[Child] = "exit"
    /\ \/ LauncherExit(exitCode[Child])
       \/ LauncherExit(1)
    /\ UNCHANGED <<video_path, src_language, translate_to, min_silence_duration,
                   threshold, library, command, launches>>
    /\ UNCHANGED pipeVars
    /\ UNCHANGED docVars

\* the scripts are run directly, not through main.py
NoLauncher ==
    /\ lpc = "none"
    /\ video_path = <<>>
    /\ src_language = <<>>
    /\ translate_to = <<>>
    /\ min_silence_duration = 0
    /\ threshold = <<0, 0>>
    /\ library = <<>>
    /\ command = <<>>
    /\ launches = 0
    /\ lexit = -1

Init ==
    /\ NoLauncher
    /\ registry \in [Universe -> {"absent", "installed"}]
    /\ catalog \in Catalogs
    /\ script \in [Procs -> {"argos", "opus"}]
    /\ args \in [Procs -> ArgsSet]
    /\ NotStarted
    /\ DocIdle

Next ==
    \/ \E p \in Procs : Start(p)
    \/ \E p \in Procs : Acquire(p)
    \/ \E p \in Procs : ExtractAudio(p)
    \/ \E p \in Procs : Transcribe(p)
    \/ \E p \in Procs : WriteOriginal(p)
    \/ \E p \in Procs : ResolveSource(p)
    \/ \E p \in Procs : EnsureLoad(p)
    \/ \E p \in Procs : QueryCatalog(p)
    \/ \E p \in Procs : Download(p)
    \/ \E p \in Procs : InstallBegin(p)
    \/ \E p \in Procs : InstallEnd(p)
    \/ \E p \in Procs : Requery(p)
    \/ \E p \in Procs : NltkPunkt(p)
    \/ \E p \in Procs : ConstructEasyNMT(p)
    \/ \E p \in Procs : Translate(p)
    \/ \E p \in Procs : WriteTranslated(p)
    \/ CleanupMain

Spec == Init /\ [][Next]_vars

\* one document through write_srt and then translate_srt or translate_srt_opus
InitDoc ==
    /\ NoLauncher
    /\ registry = [k \in Universe |-> "absent"]
    /\ catalog = <<>>
    /\ script = [p \in Procs |-> "argos"]
    /\ args = [p \in Procs |-> [language |-> Auto, to |-> <<"b">>]]
    /\ NotStarted
    /\ backend \in {"argos", "opus"}
    /\ batch_size \in IF backend = "opus" THEN BatchSizes ELSE {DefaultBatchSize}
    /\ segments \in SegmentLists
    /\ mt \in [SourceContents -> TransOutputs]
    /\ orig_file = NoFile
    /\ subs = <<>>
    /\ parsed = <<>>
    /\ sentences = <<>>
    /\ translated_sentences = <<>>
    /\ nxt = 0
    /\ trans_file = NoFile
    /\ dpc = "write_srt"

NextDoc ==
    \/ DocWriteSrt
    \/ DocParse
    \/ DocTranslateEntry
    \/ DocTranslateBatch
    \/ DocWriteTranslated

SpecDoc == InitDoc /\ [][NextDoc]_vars

\* main.py is started; the script it launches is the only pipeline run
InitRun ==
    /\ lpc = "video"
    /\ video_path = <<>>
    /\ src_language = <<>>
    /\ translate_to = <<>>
    /\ min_silence_duration = 0
    /\ threshold = <<0, 0>>
    /\ library = <<>>
    /\ command = <<>>
    /\ launches = 0
    /\ lexit = -1
    /\ registry \in [Universe -> {"absent", "installed"}]
    /\ catalog \in Catalogs
    /\ script = [p \in Procs |-> "argos"]
    /\ args = [p \in Procs |-> [language |-> <<>>, to |-> <<>>]]
    /\ pc = [p \in Procs |-> "off"]
    /\ stage = [p \in Procs |-> "Init"]
    /\ workspace = [p \in Procs |-> "none"]
    /\ detected_lang = [p \in Procs |-> None]
    /\ src_code = [p \in Procs |-> None]
    /\ translator = [p \in Procs |-> None]
    /\ tr = [p \in Procs |-> None]
    /\ pkg = [p \in Procs |-> None]
    /\ raised = [p \in Procs |-> "none"]
    /\ err = [p \in Procs |-> None]
    /\ exitCode = [p \in Procs |-> -1]
    /\ queries = [p \in Procs |-> 0]
    /\ netOps = [p \in Procs |-> 0]
    /\ installs = [p \in Procs |-> 0]
    /\ sawPartial = [p \in Procs |-> FALSE]
    /\ out_orig = [p \in Procs |-> "absent"]
    /\ out_trans = [p \in Procs |-> "absent"]
    /\ DocIdle

NextRun ==
    \/ AskVideoPath
    \/ AskLanguage
    \/ AskTranslateTo
    \/ AskMinSilence
    \/ AskThreshold
    \/ AskLibrary
    \/ Launch
    \/ AwaitChild
    \/ Start(Child)
    \/ Acquire(Child)
    \/ ExtractAudio(Child)
    \/ Transcribe(Child)
    \/ WriteOriginal(Child)
    \/ ResolveSource(Child)
    \/ EnsureLoad(Child)
    \/ QueryCatalog(Child)
    \/ Download(Child)
    \/ InstallBegin(Child)
    \/ InstallEnd(Child)
    \/ Requery(Child)
    \/ NltkPunkt(Child)
    \/ ConstructEasyNMT(Child)
    \/ Translate(Child)
    \/ WriteTranslated(Child)

SpecRun == InitRun /\ [][NextRun]_vars

(***************************************************************************)
(* Properties                                                              *)
(***************************************************************************)
\* the exception kinds ensure_argos_pair lets out, by the message that names them
Kind(e) == e[1]
InstallFailedKind == "Failed to auto-install"
StillUnavailableKind == "Argos translator still unavailable"

Requested(p) == Package(src_code[p], args[p].to)

\* C1: when the requested pair is installed, ensure_argos_pair returns its
\* handle from the first registry query: no catalog query, no download, no
\* install, registry untouched; whoever returns after a single query has done
\* no network operation, and two callers of the same pair hold the same handle.
C1_Idempotent ==
    /\ [](\A p \in Procs :
            (translator[p] # None /\ script[p] = "argos" /\ queries[p] = 1)
                => /\ netOps[p] = 0
                   /\ installs[p] = 0
                   /\ pkg[p] = None
                   /\ \A q \in Procs :
                        (script[q] = "argos" /\ translator[q] # None
                            /\ Requested(q) = Requested(p))
                        => translator[q] = translator[p])
    /\ [][\A p \in Procs :
            (pc[p] = "ensure" /\ pc'[p] # "ensure"
                /\ Requested(p) \in Installed(registry))
            => /\ translator'[p] = Requested(p)
               /\ pc'[p] = "translate"
               /\ netOps'[p] = netOps[p]
               /\ installs'[p] = installs[p]
               /\ registry' = registry]_vars

\* one caller installed the pair, a later caller got the same handle without
\* any network operation
C1_Witness ==
    \E p, q \in Procs :
        /\ p # q
        /\ installs[p] = 1 /\ translator[p] # None
        /\ queries[q] = 1 /\ translator[q] = translator[p] /\ netOps[q] = 0

\* C2: with the pair not installed and no catalog entry for it,
\* ensure_argos_pair fails with an error of its own kind, different from the
\* install-failure and still-unavailable kinds, after no download and no
\* install.
C2_PairNotFoundKind ==
    \A p \in Procs :
        raised[p] = "No Argos package found"
            => /\ Kind(err[p]) \notin {InstallFailedKind, StillUnavailableKind}
               /\ pkg[p] = None
               /\ installs[p] = 0

\* C3: the package ensure_argos_pair picks from the catalog has exactly the
\* requested from_code and to_code.
C3_ExactMatch ==
    \A p \in Procs :
        pkg[p] # None
            => /\ from_code(pkg[p]) = src_code[p]
               /\ to_code(pkg[p]) = args[p].to

\* C4: no registry read ever finds a package that is only partly installed.
C4_NoPartialObserved == \A p \in Procs : ~sawPartial[p]

\* C5: a completed install is followed by a second registry query; a query
\* that does not find the pair ends ensure_argos_pair with the
\* still-unavailable error and no handle; a handle is only ever the result of
\* the latest query.
C5_Requery ==
    /\ [](\A p \in Procs :
            (script[p] = "argos" /\ translator[p] # None)
                => tr[p] # None /\ translator[p] = tr[p])
    /\ [][\A p \in Procs :
            /\ (pc[p] = "installing" /\ pc'[p] # "installing"
                    /\ raised'[p] = "none")
                => pc'[p] = "requery"
            /\ (pc[p] = "requery" /\ pc'[p] # "requery")
                => /\ queries'[p] = queries[p] + 1
                   /\ IF tr'[p] = None
                      THEN /\ Kind(err'[p]) = StillUnavailableKind
                           /\ translator'[p] = None
                           /\ stage'[p] = "Failed"
                      ELSE translator'[p] = tr'[p]
                   /\ Requested(p) \notin (Installed(registry) \cup Partial(registry))
                        => tr'[p] = None]_vars

\* an install went through and the pair was still not found
C5_Witness ==
    \E p \in Procs :
        /\ installs[p] = 1 /\ queries[p] = 2
        /\ Kind(err[p]) = StillUnavailableKind
        /\ translator[p] = None

\* C6: a failing download or install of the matched package ends
\* ensure_argos_pair with the install-failure error carrying that cause, with
\* no second registry query and no handle.
C6_InstallFailed ==
    \A p \in Procs :
        raised[p] \in {"download failed", "install failed"}
            => /\ err[p] = <<InstallFailedKind, raised[p]>>
               /\ pkg[p] # None
               /\ queries[p] = 1
               /\ translator[p] = None
               /\ stage[p] = "Failed"

C6_Witness ==
    \E p, q \in Procs :
        /\ err[p] = <<InstallFailedKind, "install failed">>
        /\ err[q] = <<InstallFailedKind, "download failed">>

\* C7: the translated file has as many entries as the document read from the
\* original file, and entry i keeps the index, start and end of entry i.
C7_OrderPreserved ==
    dpc = "done"
        => LET out == parse(trans_file.blocks)
           IN  /\ Len(out) = Len(parsed)
               /\ \A i \in 1..Len(parsed) :
                    /\ out[i].index = parsed[i].index
                    /\ out[i].start = parsed[i].start
                    /\ out[i].end = parsed[i].end

\* C8: the batch backend returns one output per entry content, and entry i
\* receives the translation of its own original content, whatever the batch
\* size.
C8_LengthPreserved ==
    (backend = "opus" /\ dpc \in {"write", "done"})
        => /\ Len(translated_sentences) = Len(parsed)
           /\ Len(subs) = Len(parsed)
           /\ \A i \in 1..Len(parsed) :
                /\ translated_sentences[i] = mt[parsed[i].content]
                /\ subs[i].content = mt[parsed[i].content]
                /\ subs[i].index = parsed[i].index

\* three entries in batches of two, with contents translated differently
C8_Witness ==
    /\ backend = "opus" /\ dpc = "write"
    /\ Len(parsed) = 3 /\ batch_size = 2
    /\ subs[1].content # subs[2].content
    /\ subs[2].content # subs[3].content

\* C9: a run moves through the stages one at a time and in order; an error
\* moves it to Failed, and a failed run does nothing more.
StageOrder == <<"Init", "AudioExtracted", "Transcribed", "OriginalWritten",
                "TranslatorReady", "Translated", "Done">>
Rank(s) == CHOOSE i \in 1..Len(StageOrder) : StageOrder[i] = s

C9_LinearStages ==
    [][\A p \in Procs :
        /\ stage'[p] # stage[p]
            => \/ stage'[p] = "Failed" /\ stage[p] # "Done"
               \/ /\ stage'[p] # "Failed"
                  /\ Rank(stage'[p]) = Rank(stage[p]) + 1
        /\ raised'[p] # raised[p] => stage'[p] = "Failed"
        /\ stage[p] = "Failed"
            => /\ pc'[p] = pc[p] /\ stage'[p] = "Failed"
               /\ out_orig'[p] = out_orig[p] /\ out_trans'[p] = out_trans[p]
               /\ translator'[p] = translator[p] /\ queries'[p] = queries[p]
               /\ netOps'[p] = netOps[p] /\ installs'[p] = installs[p]
               /\ workspace'[p] = workspace[p]]_vars

\* one run went all the way, another failed after writing the original file
C9_Witness ==
    \E p, q \in Procs :
        /\ stage[p] = "Done" /\ out_trans[p] = "written"
        /\ stage[q] = "Failed" /\ out_orig[q] = "written"

\* C10: a run that has ended no longer holds its temporary directory, and
\* the directory is held only while extracting and transcribing.
C10_WorkspaceReleased ==
    \A p \in Procs :
        /\ pc[p] = "exit" => workspace[p] # "held"
        /\ stage[p] = "Done" => workspace[p] = "released"
        /\ workspace[p] = "held" => pc[p] \in {"ffmpeg", "transcribe"}

\* a run that failed while extracting audio, its directory removed
C10_Witness ==
    \E p \in Procs :
        /\ stage[p] = "Failed" /\ raised[p] = "CalledProcessError"
        /\ workspace[p] = "released"

\* block b of a file is segment seg, with its text stripped and its times in
\* HH:MM:SS,mmm
BlockOf(b, seg) ==
    /\ b.start = Timestamp(seg[1])
    /\ b.end = Timestamp(seg[2])
    /\ b.content = Strip(seg[3])

\* C11: once written, the original file is a complete document holding every
\* transcribed segment, and whatever happens afterwards (resolution,
\* provisioning or translation, failing or not) it is still the document
\* write_srt wrote.
C11_OriginalComplete ==
    orig_file.exists
        => /\ \A i \in 1..Len(segments) :
                \E j \in 1..Len(orig_file.blocks) :
                    BlockOf(orig_file.blocks[j], segments[i])
           /\ orig_file = File(compose(BuildSubs(segments)))

\* C14: the document parsed back from the original file equals the document
\* write_srt built from the segments: same entry count, and per entry the same
\* index, millisecond start and end, and content up to trailing whitespace.
C14_RoundTrip ==
    dpc \in {"loop", "batch", "write", "done"}
        => LET built == BuildSubs(segments)
           IN  /\ Len(parsed) = Len(built)
               /\ \A i \in 1..Len(built) :
                    /\ parsed[i].index = built[i].index
                    /\ parsed[i].start = Timedelta(Timestamp(built[i].start))
                    /\ parsed[i].end = Timedelta(Timestamp(built[i].end))
                    /\ RStrip(parsed[i].content) = RStrip(built[i].content)

\* C15 as stated: N segments give N entries numbered 1..N, entry i carrying
\* the start, end and text of segment i.
C15_OneEntryPerSegment ==
    orig_file.exists
        => LET built == BuildSubs(segments)
           IN  /\ Len(built) = Len(segments)
               /\ \A i \in 1..Len(segments) :
                    /\ built[i].index = i
                    /\ built[i].start = segments[i][1]
                    /\ built[i].end = segments[i][2]
                    /\ built[i].content = segments[i][3]

\* C15, amended: write_srt builds N entries numbered 1..N in segment order,
\* entry i carrying the start, the end and the text of segment i with leading
\* and trailing whitespace removed; the entries of the file it writes are
\* numbered 1, 2, ... without gaps.
C15_DenseIndices ==
    orig_file.exists
        => /\ LET built == BuildSubs(segments)
              IN  /\ Len(built) = Len(segments)
                  /\ \A i \in 1..Len(segments) :
                       built[i] = Subtitle(i, segments[i][1], segments[i][2],
                                           Strip(segments[i][3]))
           /\ \A j \in 1..Len(orig_file.blocks) : orig_file.blocks[j].index = j

\* three segments written, the second with whitespace around its text
C15_Witness ==
    /\ orig_file.exists
    /\ Len(segments) = 3 /\ Len(orig_file.blocks) = 3
    /\ Strip(segments[2][3]) # segments[2][3]

\* C18: a failed translation leaves no translated file, the file exists only
\* when the run is done, and it then holds every entry of the document.
C18_NeverPartial ==
    /\ dpc = "failed" => ~trans_file.exists
    /\ trans_file.exists
        => /\ dpc = "done"
           /\ Len(trans_file.blocks) = Len(subs)

\* the language main() takes the source code from
Chosen(p) ==
    IF args[p].language = Auto THEN detected_lang[p] ELSE args[p].language

\* C12: every run that gets past the resolution step has a source code: the
\* explicit language unless it is "auto", else the detected language, cut at
\* its first hyphen.
C12_SourceResolved ==
    \A p \in Procs :
        (out_orig[p] = "written" /\ pc[p] # "resolve")
            => /\ Chosen(p) # None
               /\ src_code[p] # None
               /\ src_code[p] = SplitFirst(Chosen(p))

\* a code is lowercase and has no region subtag
Normalized(code) ==
    /\ \A i \in 1..Len(code) : code[i] # Hyphen
    /\ Lower(code) = code

\* C16: the pair handed to ensure_argos_pair or to the batch translator is
\* normalized: both codes are lowercase and hold no hyphen.
C16_PairNormalized ==
    \A p \in Procs :
        pc[p] \in {"ensure", "catalog", "download", "install", "installing",
                   "requery", "translate"}
            => /\ Normalized(src_code[p])
               /\ Normalized(args[p].to)

\* C17: a run whose input file is missing ends with a nonzero status and the
\* input error, without a workspace, without extraction, transcription,
\* provisioning or translation, and with both output files untouched.
C17_MissingInputRejected ==
    \A p \in Procs :
        raised[p] = "SystemExit"
            => /\ exitCode[p] = 1
               /\ stage[p] = "Failed"
               /\ err[p][1] = "Input not found"
               /\ workspace[p] = "none"
               /\ detected_lang[p] = None
               /\ src_code[p] = None
               /\ translator[p] = None
               /\ queries[p] = 0 /\ netOps[p] = 0 /\ installs[p] = 0
               /\ out_orig[p] = "absent"
               /\ out_trans[p] = "absent"

\* one run was rejected for its missing input while the other wrote both files
C17_Witness ==
    \E p, q \in Procs :
        /\ raised[p] = "SystemExit" /\ pc[p] = "exit"
        /\ stage[q] = "Done" /\ out_trans[q] = "written"

\* C13: the script exits with status zero only when every stage completed and
\* both subtitle files are written, and with a nonzero status when a stage
\* failed; main.py returns normally only when the script exited with zero and
\* otherwise exits nonzero, with the script's code when that is nonzero.
C13_ExitStatus ==
    /\ exitCode[Child] = 0
        => /\ stage[Child] = "Done"
           /\ out_orig[Child] = "written"
           /\ out_trans[Child] = "written"
    /\ stage[Child] = "Failed" => pc[Child] = "exit" /\ exitCode[Child] > 0
    /\ pc[Child] = "exit" => exitCode[Child] >= 0
    /\ lexit = 0 => launches = 1 /\ exitCode[Child] = 0
    /\ (lpc = "exit" /\ launches = 1 /\ exitCode[Child] # 0)
        => lexit = exitCode[Child] /\ lexit # 0

\* the script failed after it had written the original file, and main.py
\* exited with its code
C13_Witness ==
    /\ lpc = "exit" /\ lexit = 1 /\ launches = 1
    /\ stage[Child] = "Failed" /\ out_orig[Child] = "written"
    /\ out_trans[Child] = "absent"

\* two floats <<n, k>> are the same number
SameFloat(f, g) == f[1] * Pow10(g[2]) = g[1] * Pow10(f[2])

\* C19: main.py starts the script at most once, and only with a non-empty video
\* path, language and target, a positive whole minimum silence duration (500
\* when nothing is typed), a threshold within 0.1 .. 1.0 (0.5 when nothing is
\* typed) and the library "argos" or "opus"; an empty required answer exits
\* nonzero with nothing started; the script started is tl_<library>.py, and
\* neither it nor the command changes once started.
C19_ValidatedLaunch ==
    /\ [](/\ launches <= 1
          /\ launches = 1
              => /\ video_path # <<>> /\ src_language # <<>> /\ translate_to # <<>>
                 /\ min_silence_duration > 0
                 /\ min_silence_duration
                        \in {DefaultMinSilence}
                              \cup {Int_(Strip(l)) : l \in {d \in DurationLines : IsInt(Strip(d))}}
                 /\ InRange(threshold)
                 /\ \/ threshold = DefaultThreshold
                    \/ \E l \in ThresholdLines : IsFloat(Strip(l)) /\ threshold = Float(Strip(l))
                 /\ library \in {Argos, Opus}
                 /\ command[3] = ScriptPath(library)
                 /\ script[Child] = (IF library = Argos THEN "argos" ELSE "opus")
                 /\ command[4] = video_path
                 /\ args[Child] = [language |-> src_language, to |-> translate_to]
                 /\ IsInt(command[10]) /\ Int_(command[10]) = min_silence_duration
                 /\ IsFloat(command[12]) /\ SameFloat(Float(command[12]), threshold)
          /\ (lpc = "exit" /\ (video_path = <<>> \/ src_language = <<>> \/ translate_to = <<>>))
              => lexit = 1 /\ launches = 0 /\ pc[Child] = "off")
    /\ [][launches = 1
            => /\ launches' = launches
               /\ command' = command
               /\ script'[Child] = script[Child]
               /\ library' = library]_vars

\* both defaults taken, the opus script ran to the end and main.py returned
C19_Witness ==
    /\ launches = 1 /\ lpc = "exit" /\ lexit = 0
    /\ min_silence_duration = DefaultMinSilence
    /\ threshold = DefaultThreshold
    /\ library = Opus /\ script[Child] = "opus"
    /\ command[12] = <<"0", ".", "5">>

====
